---- MODULE Spec2Model ----
(***************************************************************************)
(* A model of the lichess board-API client (package lichess): the session  *)
(* aggregate Lichess, the find-game rendezvous (FindAndStartGame,          *)
(* WatchForGame, SeekGame), GetBoardChannel, and the board update          *)
(* publisher WatchForBoardUpdates with the consumer of its channel.        *)
(*                                                                         *)
(* Two specifications: Spec runs one FindAndStartGame call of a caller on  *)
(* a session against a scripted remote; SpecPub runs one                   *)
(* WatchForBoardUpdates goroutine against a scripted board-state stream    *)
(* and a consumer goroutine.                                               *)
(***************************************************************************)
EXTENDS Naturals, Sequences, FiniteSets, TLC

VARIABLES
    \* ---- the process and the session
    proc,       \* "running" | "exited" (log.Fatal: os.Exit(1)) | "panicked"
    fatal,      \* the err handed to log.Fatal, "nil" while there was none
    session,    \* the caller's Lichess value
    nextChan,   \* number of channels made so far (make(chan Board))
    closed,     \* the set of closed channels
    \* ---- one FindAndStartGame call (main goroutine)
    pc,         \* the position of the caller's goroutine
    l,          \* the receiver of the method called: a copy of the session
    event,      \* FindAndStartGame's local `event`
    wg,         \* FindAndStartGame's local WaitGroup counter
    boardChan,  \* what GetBoardChannel returned to the caller
    \* ---- the remote service and the terminal
    remote,     \* the script of the remote: transport outcomes and its policy
    evQueue,    \* event stream: records the remote has emitted, not yet read
    matched,    \* the remote has answered the seek with a gameStart
    net,        \* the requests issued so far, in order
    readLog,    \* the event-stream records decoded so far
    prompted,   \* the challenge ids the accept/decline prompt was shown for
    answer,     \* the line last typed at the prompt
    cancelled,  \* the caller has asked to abandon the find-game operation
    \* ---- one WatchForBoardUpdates call and the consumer of its channel
    bpc,        \* the position of the publisher goroutine
    ch,         \* the publisher's parameter ch
    gameId,     \* the publisher's parameter gameId
    wgB,        \* the counter of the WaitGroup handed to the publisher
    bScript,    \* board-state stream: all records the remote will emit
    bRead,      \* how many of them the decoder has consumed
    boardResp,  \* the publisher's local boardResp
    received,   \* the Boards the consumer has received from ch, in order
    consumer,   \* "busy" | "receiving" (blocked in <-ch)
    buf,        \* the Boards held in the channel's buffer
    \* ---- GetAccount calls
    acctCalls,  \* how many GetAccount calls have returned or ended the process
    acctRet     \* the Profiles the GetAccount calls returned, in order

findVars == <<pc, l, event, wg, boardChan, evQueue, matched, readLog,
              prompted, answer, cancelled>>
pubVars  == <<bpc, ch, gameId, wgB, bScript, bRead, boardResp, received,
              consumer, buf>>
acctVars == <<acctCalls, acctRet>>
vars     == <<proc, fatal, session, nextChan, closed, remote, net,
              findVars, pubVars, acctVars>>

-----------------------------------------------------------------------------
(* Bounds of the model *)

MaxEvents == 3      \* longest scripted event stream
MaxRecords == 3     \* longest scripted board-state stream
MaxGameRecords == 1 \* longest board-state stream of a game that was found
MaxAccountCalls == 3 \* most GetAccount calls on one session

SeqsUpTo(S, n) == UNION {[1..k -> S] : k \in 0..n}

-----------------------------------------------------------------------------
(* Paths and URLs *)

lichessURL == "https://lichess.org"
accountPath == "/api/account"
streamEventPath == "/api/stream/event"
seekPath == "/api/board/seek"

\* The two templated paths, cut at their %s verbs. (The older lichess.go
\* holds them without verbs, "/api/board/game/stream/" and "/api/challenge/";
\* the model follows the later file.)
streamBoardPath == <<"/api/board/game/stream/", "%s">>
challengeRespPath == <<"/api/challenge/", "%s", "/", "%s">>

RECURSIVE Str(_)
\* A path constant used as a plain string (the operand of Go's +).
Str(t) == IF t = <<>> THEN "" ELSE Head(t) \o Str(Tail(t))

RECURSIVE Sprintf(_, _)
\* fmt.Sprintf(t, args...): each %s verb replaced by the next argument.
Sprintf(t, args) ==
    IF t = <<>> THEN ""
    ELSE IF Head(t) = "%s" /\ args # <<>>
         THEN Head(args) \o Sprintf(Tail(t), Tail(args))
         ELSE Head(t) \o Sprintf(Tail(t), args)

Get(url)  == [method |-> "GET", url |-> url]
Post(url) == [method |-> "POST", url |-> url]

EventStreamURL == lichessURL \o streamEventPath
SeekURL == lichessURL \o seekPath
\* The URLs WatchForGame builds for a challenge response.
AcceptURL(id)  == lichessURL \o Str(challengeRespPath) \o id \o "/accept"
DeclineURL(id) == lichessURL \o Str(challengeRespPath) \o id \o "/decline"
\* The URL WatchForBoardUpdates builds for a game.
BoardStreamURL(id) == lichessURL \o Str(streamBoardPath) \o id

\* The endpoints the path templates name (ChallengeID, Resp / GameID).
ChallengeEndpoint(id, resp) == lichessURL \o Sprintf(challengeRespPath, <<id, resp>>)
BoardEndpoint(id) == lichessURL \o Sprintf(streamBoardPath, <<id>>)

-----------------------------------------------------------------------------
(* Data *)

NilChan == 0

ZeroGame == [ID |-> "", Board |-> NilChan]
ZeroEvent == [Type |-> "", Challenge |-> [ID |-> ""], Game |-> ZeroGame]
ZeroProfile == [ID |-> ""]
ZeroSession == [profile |-> ZeroProfile, currGame |-> ZeroGame]

\* What may arrive on a stream in place of one JSON value.
Null == [kind |-> "null"]
Malformed == [kind |-> "malformed"]
Object(j) == [kind |-> "object", json |-> j]

GameStart(g) == Object([type |-> "gameStart", game |-> [id |-> g]])
ChallengeEv(c) == Object([type |-> "challenge", challenge |-> [id |-> c]])
OtherEv == Object([type |-> "gameFinish", game |-> [id |-> "g9"]])

WireEvents == {GameStart("g1"), ChallengeEv("c1"), OtherEv, Null, Malformed}

\* json.Decoder.Decode into the existing Event: a key that is present
\* overwrites its field, a key that is absent leaves the field as it was.
DecodeEvent(ev, j) ==
    [Type |-> IF "type" \in DOMAIN j THEN j.type ELSE ev.Type,
     Challenge |-> IF "challenge" \in DOMAIN j
                   THEN [ID |-> j.challenge.id] ELSE ev.Challenge,
     Game |-> IF "game" \in DOMAIN j
              THEN [ID |-> j.game.id, Board |-> ev.Game.Board] ELSE ev.Game]

\* bufio.Reader.ReadString('\n') on a typed line: the text up to and
\* including the delimiter; without the delimiter when input ends first.
ReadString(line, eol) == IF eol THEN line \o "\n" ELSE line

Lines == {"y", "n", "x"}


\* A JSON number and a uint32 field are written as their decimal digits,
\* most significant first and without leading zeros.
ZeroBoard == [Type |-> "", ID |-> "", CreatedAt |-> <<0>>, Moves |-> "",
              Status |-> "", Text |-> ""]

\* The largest value of CreatedAt uint32: 4294967295.
MaxUint32 == <<4, 2, 9, 4, 9, 6, 7, 2, 9, 5>>

\* Whether the number with digits d can be stored in a uint32.
FitsUint32(d) ==
    \/ Len(d) < Len(MaxUint32)
    \/ /\ Len(d) = Len(MaxUint32)
       /\ \/ d = MaxUint32
          \/ \E k \in 1..Len(d) :
                /\ \A i \in 1..(k - 1) : d[i] = MaxUint32[i]
                /\ d[k] < MaxUint32[k]

\* The first record of a board-state stream: createdAt is the game's
\* creation time in milliseconds since the epoch (1600000000000).
GameFull  == Object([type |-> "gameFull", id |-> "g1",
                     createdAt |-> <<1, 6, 0, 0, 0, 0, 0, 0, 0, 0, 0, 0, 0>>])
\* A gameFull whose createdAt is the largest number a uint32 holds.
GameFullFits == Object([type |-> "gameFull", id |-> "g1",
                        createdAt |-> MaxUint32])
GameState == Object([type |-> "gameState", moves |-> "e2e4", status |-> "started"])
ChatLine  == Object([type |-> "chatLine", text |-> "hi"])

WireBoards == {GameFull, GameFullFits, GameState, ChatLine, Null, Malformed}

\* The error of json.Decoder.Decode of object j into a Board: a number that
\* does not fit the field's type is an UnmarshalTypeError.
DecodeBoardErr(j) ==
    IF "createdAt" \in DOMAIN j /\ ~FitsUint32(j.createdAt)
    THEN "json: cannot unmarshal number into Go struct field Board.createdAt of type uint32"
    ELSE "nil"

\* json.Decoder.Decode into a fresh Board{}: keys present set their field,
\* every other field (and one whose value does not fit) keeps its zero
\* value.
DecodeBoard(j) ==
    [Type   |-> IF "type" \in DOMAIN j THEN j.type ELSE ZeroBoard.Type,
     ID     |-> IF "id" \in DOMAIN j THEN j.id ELSE ZeroBoard.ID,
     CreatedAt |-> IF "createdAt" \in DOMAIN j /\ FitsUint32(j.createdAt)
                   THEN j.createdAt ELSE ZeroBoard.CreatedAt,
     Moves  |-> IF "moves" \in DOMAIN j THEN j.moves ELSE ZeroBoard.Moves,
     Status |-> IF "status" \in DOMAIN j THEN j.status ELSE ZeroBoard.Status,
     Text   |-> IF "text" \in DOMAIN j THEN j.text ELSE ZeroBoard.Text]

NoAnswer == [line |-> "", eol |-> FALSE]

Remotes == [getOK : BOOLEAN, seekOK : BOOLEAN, matchOnSeek : BOOLEAN,
            close : BOOLEAN]

\* A session as in-package code can construct it: the zero value, or one
\* whose currGame already holds a game with its channel.
ActiveSession == [profile |-> ZeroProfile,
                  currGame |-> [ID |-> "g0", Board |-> 1]]
Sessions == {ZeroSession, ActiveSession}

-----------------------------------------------------------------------------
(* Initial states *)

ProcessInit ==
    /\ proc = "running"
    /\ fatal = "nil"
    /\ session \in Sessions
    /\ nextChan = IF session.currGame.Board = NilChan THEN 0 ELSE 1
    /\ closed = {}
    /\ net = <<>>

FindIdle ==
    /\ pc = "idle"
    /\ l = ZeroSession
    /\ event = ZeroEvent
    /\ wg = 0
    /\ boardChan = NilChan
    /\ matched = FALSE
    /\ readLog = <<>>
    /\ prompted = <<>>
    /\ answer = NoAnswer
    /\ cancelled = FALSE

PubIdle ==
    /\ bpc = "idle"
    /\ ch = NilChan
    /\ gameId = ""
    /\ wgB = 0
    /\ bScript = <<>>
    /\ bRead = 0
    /\ boardResp = ZeroBoard
    /\ received = <<>>
    /\ consumer = "busy"
    /\ buf = <<>>

AcctIdle ==
    /\ acctCalls = 0
    /\ acctRet = <<>>

Init ==
    /\ ProcessInit
    /\ FindIdle
    /\ PubIdle
    /\ AcctIdle
    /\ remote \in Remotes
    /\ evQueue \in SeqsUpTo(WireEvents, MaxEvents)

-----------------------------------------------------------------------------
(* log.Fatal and panics *)

\* log.Fatal(err): the error is printed and the process exits with status 1;
\* deferred calls do not run.
LogFatal(err) ==
    /\ proc' = "exited"
    /\ fatal' = err

Running == proc = "running"

\* A return path that leaves the WaitGroup as it was.
DoneMissing(c) == c

\* sync.WaitGroup.Done(): the counter drops by one.
Done(c) == c - 1

-----------------------------------------------------------------------------
(* FindAndStartGame, with WatchForGame and SeekGame called in line *)

\* FindAndStartGame with its two calls in the other order: SeekGame first.
CallFindAndStartGameSeekFirst ==
    /\ Running /\ pc = "idle"
    /\ l' = session
    /\ wg' = wg + 1
    /\ event' = ZeroEvent
    /\ pc' = "SeekGame"
    /\ UNCHANGED <<proc, fatal, session, nextChan, closed, remote, net,
                   boardChan, evQueue, matched, readLog, prompted, answer,
                   pubVars, cancelled, acctVars>>

\* wg.Add(1); event := Event{}; then the plain call WatchForGame(...).
CallFindAndStartGame ==
    /\ Running /\ pc = "idle"
    /\ l' = session
    /\ wg' = wg + 1
    /\ event' = ZeroEvent
    /\ pc' = "WatchForGame.Get"
    /\ UNCHANGED <<proc, fatal, session, nextChan, closed, remote, net,
                   boardChan, evQueue, matched, readLog, prompted, answer,
                   pubVars, cancelled, acctVars>>

\* client.Get(lichessURL + streamEventPath); log.Fatal on an error.
WatchForGameGet ==
    /\ Running /\ pc = "WatchForGame.Get"
    /\ net' = Append(net, Get(EventStreamURL))
    /\ IF remote.getOK
       THEN pc' = "WatchForGame.Decode" /\ UNCHANGED <<proc, fatal>>
       ELSE LogFatal("transport error") /\ UNCHANGED pc
    /\ UNCHANGED <<session, nextChan, closed, remote, l, event, wg, boardChan,
                   evQueue, matched, readLog, prompted, answer, pubVars, cancelled, acctVars>>

\* The value WatchForGame stores through `event` on a gameStart.
eventResp == ZeroEvent

\* One turn of the loop: dec.Decode(&event), then the switch on event.Type.
WatchForGameDecode ==
    /\ Running /\ pc = "WatchForGame.Decode"
    /\ IF evQueue # <<>>
       THEN LET item == Head(evQueue) IN
            /\ evQueue' = Tail(evQueue)
            /\ readLog' = Append(readLog, item)
            /\ CASE item.kind = "malformed" ->
                      /\ LogFatal("invalid character")
                      /\ UNCHANGED <<pc, event, wg>>
                 [] item.kind = "null" ->
                      \* Decode sets the pointer `event` to nil; event.Type
                      \* panics, and the deferred wg.Done runs on the way out.
                      /\ proc' = "panicked"
                      /\ wg' = Done(wg)
                      /\ UNCHANGED <<fatal, pc, event>>
                 [] item.kind = "object" ->
                      LET ev == DecodeEvent(event, item.json) IN
                      /\ UNCHANGED <<proc, fatal>>
                      /\ CASE ev.Type = "gameStart" ->
                                /\ event' = eventResp
                                /\ wg' = Done(wg)
                                /\ pc' = "SeekGame"
                           [] ev.Type = "challenge" ->
                                /\ event' = ev
                                /\ pc' = "WatchForGame.Prompt"
                                /\ UNCHANGED wg
                           [] OTHER ->
                                /\ event' = ev
                                /\ UNCHANGED <<pc, wg>>
       ELSE /\ remote.close
            /\ LogFatal("EOF")
            /\ UNCHANGED <<pc, event, wg, evQueue, readLog>>
    /\ UNCHANGED <<session, nextChan, closed, remote, net, l, boardChan,
                   matched, prompted, answer, pubVars, cancelled, acctVars>>

\* A response chain whose last branch declines instead of reporting
\* "Invalid response".
ChallengePostsElseDecline(response, id) ==
    IF response = "y" THEN <<Post(AcceptURL(id))>>
    ELSE <<Post(DeclineURL(id))>>

\* if response == "y" {accept} else if response == "n" {decline} else
\* {"Invalid response"}: the requests the response makes the Watcher issue.
ChallengePosts(response, id) ==
    IF response = "y" THEN <<Post(AcceptURL(id))>>
    ELSE IF response = "n" THEN <<Post(DeclineURL(id))>>
    ELSE <<>>

\* case "challenge": the prompt, reader.ReadString('\n'), and the POST the
\* response selects (errors of client.Post are dropped).
WatchForGamePrompt ==
    /\ Running /\ pc = "WatchForGame.Prompt"
    /\ \E line \in Lines, eol \in BOOLEAN :
         LET response == ReadString(line, eol)
             id == event.Challenge.ID
         IN /\ answer' = [line |-> line, eol |-> eol]
            /\ prompted' = Append(prompted, id)
            /\ net' = net \o ChallengePosts(response, id)
    /\ pc' = "WatchForGame.Decode"
    /\ UNCHANGED <<proc, fatal, session, nextChan, closed, remote, l, event,
                   wg, boardChan, evQueue, matched, readLog, pubVars, cancelled, acctVars>>

\* SeekGame: client.Post(lichessURL + seekPath, ...); log.Fatal on an error.
SeekGame ==
    /\ Running /\ pc = "SeekGame"
    /\ net' = Append(net, Post(SeekURL))
    /\ IF remote.seekOK
       THEN pc' = "wg.Wait" /\ UNCHANGED <<proc, fatal>>
       ELSE LogFatal("transport error") /\ UNCHANGED pc
    /\ UNCHANGED <<session, nextChan, closed, remote, l, event, wg, boardChan,
                   evQueue, matched, readLog, prompted, answer, pubVars, cancelled, acctVars>>

\* wg.Wait(): passes once the counter is zero.
FindWait ==
    /\ Running /\ pc = "wg.Wait"
    /\ wg = 0
    /\ pc' = "bind"
    /\ UNCHANGED <<proc, fatal, session, nextChan, closed, remote, net, l,
                   event, wg, boardChan, evQueue, matched, readLog, prompted,
                   answer, pubVars, cancelled, acctVars>>

\* l.currGame = event.Game; l.currGame.Board = make(chan Board); return.
\* l is the method's own copy of the receiver.
FindBind ==
    /\ Running /\ pc = "bind"
    /\ nextChan' = nextChan + 1
    /\ l' = [l EXCEPT !.currGame = [ID |-> event.Game.ID,
                                    Board |-> nextChan + 1]]
    /\ pc' = "returned"
    /\ UNCHANGED <<proc, fatal, session, closed, remote, net, event, wg,
                   boardChan, evQueue, matched, readLog, prompted, answer,
                   pubVars, cancelled, acctVars>>

\* The caller's l.GetBoardChannel() after FindAndStartGame returned.
GetBoardChannel ==
    /\ Running /\ pc = "returned"
    /\ boardChan' = session.currGame.Board
    /\ pc' = "done"
    /\ UNCHANGED <<proc, fatal, session, nextChan, closed, remote, net, l,
                   event, wg, evQueue, matched, readLog, prompted, answer,
                   pubVars, cancelled, acctVars>>

\* The remote's matchmaking: once it has received a seek it emits, on the
\* event stream, the gameStart of the game it matched.
SeekReceived ==
    \E i \in 1..Len(net) : net[i] = Post(SeekURL) /\ remote.seekOK

RemoteMatch ==
    /\ Running
    /\ remote.matchOnSeek /\ ~matched
    /\ SeekReceived
    /\ matched' = TRUE
    /\ evQueue' = Append(evQueue, GameStart("g1"))
    /\ UNCHANGED <<proc, fatal, session, nextChan, closed, remote, net, pc, l,
                   event, wg, boardChan, readLog, prompted, answer, pubVars, cancelled, acctVars>>

\* The caller gives up the search while FindAndStartGame is waiting for the
\* Watcher. FindAndStartGame takes no context or token, so nothing in it
\* reads the request.
WaitingForWatcher ==
    \/ pc = "WatchForGame.Decode" /\ evQueue = <<>> /\ ~remote.close
    \/ pc = "wg.Wait" /\ wg # 0

Cancel ==
    /\ Running
    /\ ~cancelled
    /\ WaitingForWatcher
    /\ cancelled' = TRUE
    /\ UNCHANGED <<proc, fatal, session, nextChan, closed, remote, net, pc, l,
                   event, wg, boardChan, evQueue, matched, readLog, prompted,
                   answer, pubVars, acctVars>>

Next ==
    \/ CallFindAndStartGame
    \/ WatchForGameGet
    \/ WatchForGameDecode
    \/ WatchForGamePrompt
    \/ SeekGame
    \/ FindWait
    \/ FindBind
    \/ GetBoardChannel
    \/ RemoteMatch
    \/ Cancel

Spec == Init /\ [][Next]_vars

\* A goroutine that can run does run, and the remote does act.
FairSpec == Spec /\ WF_vars(Next)

-----------------------------------------------------------------------------
(* WatchForBoardUpdates and the consumer of its channel *)

\* The caller has done wg.Add(1) and
\*   go l.WatchForBoardUpdates(l.currGame.ID, l.GetBoardChannel(), &wg)
\* on its session; the remote holds the board-state stream of that game.
InitPub ==
    /\ ProcessInit
    /\ FindIdle
    /\ remote \in {r \in Remotes : r.seekOK /\ ~r.matchOnSeek}
    /\ evQueue = <<>>
    /\ bpc = "WatchForBoardUpdates.Get"
    /\ ch = session.currGame.Board
    /\ gameId = session.currGame.ID
    /\ wgB = 1
    /\ bScript \in SeqsUpTo(WireBoards, MaxRecords)
    /\ bRead = 0
    /\ boardResp = ZeroBoard
    /\ received = <<>>
    /\ consumer = "busy"
    /\ buf = <<>>
    /\ AcctIdle

\* l.client.Get(lichessURL + streamBoardPath + gameId); log.Fatal on an error.
PubGet ==
    /\ Running /\ bpc = "WatchForBoardUpdates.Get"
    /\ net' = Append(net, Get(BoardStreamURL(gameId)))
    /\ IF remote.getOK
       THEN bpc' = "WatchForBoardUpdates.Decode" /\ UNCHANGED <<proc, fatal>>
       ELSE LogFatal("transport error") /\ UNCHANGED bpc
    /\ UNCHANGED <<session, nextChan, closed, remote, findVars, acctVars, ch, gameId, buf,
                   wgB, bScript, bRead, boardResp, received, consumer>>

\* The end of the stream handled as WatchForGame handles it: log.Fatal.
\* if err == io.EOF { return }: the deferred wg.Done runs and the publisher
\* is over; nothing else is done.
PubEndOfStream ==
    /\ wgB' = Done(wgB)
    /\ bpc' = "done"
    /\ UNCHANGED <<proc, fatal>>

\* boardResp := Board{}; err := dec.Decode(&boardResp): io.EOF returns, any
\* other error (bytes that are not JSON, a value that does not fit its
\* field) is log.Fatal.
PubDecode ==
    /\ Running /\ bpc = "WatchForBoardUpdates.Decode"
    /\ IF bRead < Len(bScript)
       THEN LET item == bScript[bRead + 1] IN
            /\ bRead' = bRead + 1
            /\ CASE item.kind = "malformed" ->
                      /\ LogFatal("invalid character")
                      /\ UNCHANGED <<bpc, boardResp>>
                 [] item.kind = "null" ->
                      /\ boardResp' = ZeroBoard
                      /\ bpc' = "WatchForBoardUpdates.Send"
                      /\ UNCHANGED <<proc, fatal>>
                 [] item.kind = "object" ->
                      /\ boardResp' = DecodeBoard(item.json)
                      /\ IF DecodeBoardErr(item.json) # "nil"
                         THEN /\ LogFatal(DecodeBoardErr(item.json))
                              /\ UNCHANGED bpc
                         ELSE /\ bpc' = "WatchForBoardUpdates.Send"
                              /\ UNCHANGED <<proc, fatal>>
            /\ UNCHANGED wgB
       ELSE /\ remote.close
            /\ PubEndOfStream
            /\ UNCHANGED <<bRead, boardResp>>
    /\ UNCHANGED <<session, nextChan, closed, remote, net, findVars, acctVars, buf, ch,
                   gameId, bScript, received, consumer>>

\* A Board channel made with room for one value: make(chan Board, 1).
ChanCapOne == 0 + 1

\* The capacity of a Board channel: make(chan Board) has no buffer.
ChanCap == 0

\* ch <- boardResp: handed to a receiver waiting in <-ch, or put in the
\* buffer while it has room; otherwise the send does not complete. A send
\* on a nil channel never completes.
PubSend ==
    /\ Running /\ bpc = "WatchForBoardUpdates.Send"
    /\ ch # NilChan /\ ch \notin closed
    /\ IF consumer = "receiving"
       THEN /\ received' = Append(received, boardResp)
            /\ consumer' = "busy"
            /\ UNCHANGED buf
       ELSE /\ Len(buf) < ChanCap
            /\ buf' = Append(buf, boardResp)
            /\ UNCHANGED <<received, consumer>>
    /\ bpc' = "WatchForBoardUpdates.Decode"
    /\ UNCHANGED <<proc, fatal, session, nextChan, closed, remote, net,
                   findVars, acctVars, ch, gameId, wgB, bScript, bRead,
                   boardResp>>

\* The consumer goroutine reaches its next <-ch: it takes the oldest
\* buffered value, or waits for a sender.
ConsumerReceive ==
    /\ Running
    /\ consumer = "busy"
    /\ IF buf # <<>>
       THEN /\ received' = Append(received, Head(buf))
            /\ buf' = Tail(buf)
            /\ UNCHANGED consumer
       ELSE /\ consumer' = "receiving"
            /\ UNCHANGED <<received, buf>>
    /\ UNCHANGED <<proc, fatal, session, nextChan, closed, remote, net,
                   findVars, acctVars, bpc, ch, gameId, wgB, bScript, bRead,
                   boardResp>>

NextPub ==
    \/ PubGet
    \/ PubDecode
    \/ PubSend
    \/ ConsumerReceive

SpecPub == InitPub /\ [][NextPub]_vars

\* The publisher goroutine runs when it can, and the consumer goroutine
\* keeps coming back to its receive.
FairSpecPub == SpecPub /\ WF_vars(NextPub)

-----------------------------------------------------------------------------
(* GetAccount *)

AccountURL == lichessURL \o accountPath

\* What the account endpoint may answer with: a profile, an object with no
\* field of Profile (an error body), null, or bytes that are not JSON.
AccountResponses ==
    {Object([id |-> "u1"]), Object([id |-> "u2"]),
     Object([error |-> "No such token"]), Null, Malformed}

\* json.Decoder.Decode into a fresh Profile{}: keys that are no field of
\* Profile are ignored.
DecodeProfile(j) == [ID |-> IF "id" \in DOMAIN j THEN j.id ELSE ZeroProfile.ID]

\* A session whose profile field in-package code has already filled.
CachedSession == [profile |-> [ID |-> "u0"], currGame |-> ZeroGame]
AccountSessions == Sessions \cup {CachedSession}

InitAccount ==
    /\ proc = "running"
    /\ fatal = "nil"
    /\ session \in AccountSessions
    /\ nextChan = IF session.currGame.Board = NilChan THEN 0 ELSE 1
    /\ closed = {}
    /\ net = <<>>
    /\ FindIdle
    /\ PubIdle
    /\ AcctIdle
    /\ remote \in {r \in Remotes : r.seekOK /\ ~r.matchOnSeek /\ ~r.close}
    /\ evQueue = <<>>

\* One call of l.GetAccount() by the caller: the receiver l is a copy of the
\* session; when its profile is the zero Profile the account is fetched and
\* decoded (log.Fatal on either error) and stored in l.profile; l.profile
\* is returned.
GetAccount ==
    /\ Running
    /\ acctCalls < MaxAccountCalls
    /\ acctCalls' = acctCalls + 1
    /\ IF session.profile = ZeroProfile
       THEN /\ net' = Append(net, Get(AccountURL))
            /\ IF ~remote.getOK
               THEN /\ LogFatal("transport error")
                    /\ l' = session
                    /\ UNCHANGED acctRet
               ELSE \E resp \in AccountResponses :
                      IF resp.kind = "malformed"
                      THEN /\ LogFatal("invalid character")
                           /\ l' = session
                           /\ UNCHANGED acctRet
                      ELSE LET profile == IF resp.kind = "null" THEN ZeroProfile
                                          ELSE DecodeProfile(resp.json)
                           IN /\ l' = [session EXCEPT !.profile = profile]
                              /\ acctRet' = Append(acctRet, profile)
                              /\ UNCHANGED <<proc, fatal>>
       ELSE /\ l' = session
            /\ acctRet' = Append(acctRet, session.profile)
            /\ UNCHANGED <<net, proc, fatal>>
    /\ UNCHANGED <<session, nextChan, closed, remote, pc, event, wg,
                   boardChan, evQueue, matched, readLog, prompted, answer,
                   cancelled, pubVars>>

NextAccount ==
    \/ GetAccount

SpecAccount == InitAccount /\ [][NextAccount]_vars

-----------------------------------------------------------------------------
(* A whole game: find, then publish *)

\* The caller, once FindAndStartGame has returned and it holds the channel
\* of GetBoardChannel, starts the publisher for the session's current game:
\*   wg.Add(1); go l.WatchForBoardUpdates(l.currGame.ID, ch, &wg)
StartPublisher ==
    /\ Running /\ pc = "done" /\ bpc = "idle"
    /\ gameId' = session.currGame.ID
    /\ ch' = boardChan
    /\ wgB' = wgB + 1
    /\ bScript' \in SeqsUpTo(WireBoards, MaxGameRecords)
    /\ bpc' = "WatchForBoardUpdates.Get"
    /\ UNCHANGED <<proc, fatal, session, nextChan, closed, remote, net,
                   findVars, acctVars, bRead, boardResp, received, consumer,
                   buf>>

NextGame ==
    \/ CallFindAndStartGame
    \/ WatchForGameGet
    \/ WatchForGameDecode
    \/ WatchForGamePrompt
    \/ SeekGame
    \/ FindWait
    \/ FindBind
    \/ GetBoardChannel
    \/ RemoteMatch
    \/ Cancel
    \/ StartPublisher
    \/ PubGet
    \/ PubDecode
    \/ PubSend
    \/ ConsumerReceive

SpecGame == Init /\ [][NextGame]_vars

-----------------------------------------------------------------------------
(* Outcomes *)

\* How the FindAndStartGame call stands. The function has no result
\* parameters: it returns nothing, or the process ends inside it.
FindOutcome ==
    IF proc # "running" THEN proc
    ELSE IF pc \in {"returned", "done"} THEN "returned"
    ELSE "pending"

\* WatchForGame has returned to FindAndStartGame.
WatcherReturned == pc \in {"SeekGame", "wg.Wait", "bind", "returned", "done"}

IsGameStart(item) == item.kind = "object" /\ item.json.type = "gameStart"
IsChallenge(item) == item.kind = "object" /\ item.json.type = "challenge"

\* The decision the user gives at the prompt "Do you accept? (y or n)".
Decision(line) ==
    IF line = "y" THEN "accept" ELSE IF line = "n" THEN "decline" ELSE "invalid"

\* The Boards of a stream of JSON objects.
Records(s) == [i \in 1..Len(s) |-> DecodeBoard(s[i].json)]

\* A board-state stream of well-formed records that then closes cleanly.
CleanBoardStream ==
    /\ remote.getOK /\ remote.close
    /\ \A i \in 1..Len(bScript) : bScript[i].kind = "object"

-----------------------------------------------------------------------------
(* Claims *)

\* C1: when a gameStart carrying game id g follows zero or more challenge or
\* other events, WatchForGame returns at that gameStart, the Event handed
\* back carries Game.ID = g (and FindAndStartGame binds a game with that
\* ID), the prompt was shown once per preceding challenge, and nothing
\* after the gameStart was read.
C1_GameStartHandedBack ==
    WatcherReturned =>
        LET n == Len(readLog) IN
        /\ n > 0 /\ IsGameStart(readLog[n])
        /\ \A i \in 1..(n - 1) : ~IsGameStart(readLog[i])
        /\ Len(prompted) = Cardinality({i \in 1..(n - 1) : IsChallenge(readLog[i])})
        /\ event.Game.ID = readLog[n].json.game.id
        /\ (pc \in {"returned", "done"} => l.currGame.ID = readLog[n].json.game.id)

\* C2: against a remote that emits the gameStart only after it received the
\* seek POST (and whose transport works), FindAndStartGame eventually
\* passes the rendezvous and returns.
C2_SeekWhileWatching ==
    (/\ pc = "idle" /\ evQueue = <<>>
     /\ remote.getOK /\ remote.seekOK /\ remote.matchOnSeek /\ ~remote.close)
        ~> (pc \in {"returned", "done"})

\* C3: after FindAndStartGame returned, the session's current game is the
\* one it bound, with a non-nil Board channel, and GetBoardChannel on the
\* session returns exactly the channel FindAndStartGame allocated.
C3_SessionHoldsBoundGame ==
    /\ pc \in {"returned", "done"} =>
          /\ session.currGame = l.currGame
          /\ session.currGame.Board # NilChan
    /\ pc = "done" => boardChan = l.currGame.Board

\* C4: for a board-state stream of well-formed records R1..Rn that then
\* closes cleanly, what the publisher has sent on the channel is always
\* the decoded records so far, each once and in stream order, with at most
\* the one in hand not yet sent; it never fails, and when it is done it has
\* sent exactly R1..Rn.
C4_PublishesInOrder ==
    CleanBoardStream =>
        /\ proc = "running" /\ fatal = "nil"
        /\ Len(received) <= Len(bScript)
        /\ received = SubSeq(Records(bScript), 1, Len(received))
        /\ bRead = Len(received) + (IF bpc = "WatchForBoardUpdates.Send" THEN 1 ELSE 0)
        /\ (bpc = "WatchForBoardUpdates.Send" => boardResp = Records(bScript)[bRead])
        /\ (bpc = "done" => received = Records(bScript))

\* C5: when the board-state stream has ended the game channel is closed, and
\* the channel is never closed before the stream has ended.
C5_ChannelClosedAtEnd ==
    /\ bpc = "done" => ch \in closed
    /\ ch \in closed => bpc = "done"

\* C6: a challenge answered "decline" makes the Watcher issue exactly one
\* POST, to the decline endpoint of that challenge, one answered "accept"
\* exactly one POST to its accept endpoint, and the Watcher goes on to read
\* the next event.
C6_ChallengeResponsePosted ==
    [][(pc = "WatchForGame.Prompt" /\ pc' # pc) =>
          LET id == event.Challenge.ID
              d == Decision(answer'.line)
          IN /\ d = "decline" =>
                   net' = Append(net, Post(ChallengeEndpoint(id, "decline")))
             /\ d = "accept" =>
                   net' = Append(net, Post(ChallengeEndpoint(id, "accept")))
             /\ pc' = "WatchForGame.Decode" /\ proc' = "running"]_vars

\* C7: when the event stream ends before any gameStart was seen, the
\* find-game operation fails with WatcherStreamClosedError reported to its
\* caller, no game is bound, and the process is not terminated.
C7_StreamClosedReported ==
    [][(/\ pc = "WatchForGame.Decode" /\ evQueue = <<>> /\ remote.close
        /\ <<pc, proc>>' # <<pc, proc>>) =>
          /\ proc' = "running"
          /\ FindOutcome' = "WatcherStreamClosedError"
          /\ session' = session]_vars

\* C8: FindAndStartGame on a session that already has an active game fails
\* with GameAlreadyActiveError and leaves the current game and its Board
\* channel as they were.
C8_ActiveGameRejected ==
    (session.currGame # ZeroGame /\ pc # "idle") =>
        /\ FindOutcome = "GameAlreadyActiveError"
        /\ l.currGame = session.currGame
        /\ nextChan = 1

\* C9: when the seek POST fails with a transport error, the find-game
\* operation aborts with that error propagated to its caller, without
\* binding a game; the process keeps running.
C9_SeekErrorPropagated ==
    [][(pc = "SeekGame" /\ ~remote.seekOK /\ net' # net) =>
          /\ proc' = "running"
          /\ FindOutcome' = "TransportError"
          /\ session' = session]_vars

\* C10: for a board-state stream whose k-th record is malformed, the
\* publisher has forwarded exactly the k-1 records before it, in order, and
\* fails with a StreamDecodeError that ends only this publisher: the
\* process keeps running.
C10_MalformedEndsOnlyPublisher ==
    (bRead > 0 /\ bScript[bRead].kind = "malformed") =>
        /\ Len(received) = bRead - 1
        /\ proc = "running"
        /\ bpc = "done"


\* C11: cancelling a FindAndStartGame that is blocked waiting for the
\* Watcher makes it return with a cancellation error, and the session's
\* current game stays as it was.
C11_CancelReturns ==
    cancelled ~> (/\ FindOutcome = "CancellationError"
                  /\ l.currGame = session.currGame)

\* The positions of the main goroutine inside WatchForGame.
InWatcher ==
    pc \in {"WatchForGame.Get", "WatchForGame.Decode", "WatchForGame.Prompt"}

IsOtherEvent(item) ==
    item.kind = "object" /\ item.json.type \notin {"gameStart", "challenge"}

\* C12: the Watcher issues a POST only in the step that handles a challenge
\* whose decision is accept or decline; an event with any other tag, and a
\* challenge whose decision is invalid, add no request, and the Watcher
\* goes on to the next event.
C12_PostOnlyOnDecision ==
    [][/\ (InWatcher /\ net' # net /\ net'[Len(net')].method = "POST") =>
              /\ pc = "WatchForGame.Prompt"
              /\ Decision(answer'.line) \in {"accept", "decline"}
       /\ (pc = "WatchForGame.Prompt" /\ pc' # pc
             /\ Decision(answer'.line) = "invalid") =>
              /\ net' = net
              /\ pc' = "WatchForGame.Decode" /\ proc' = "running"
       /\ (pc = "WatchForGame.Decode" /\ readLog' # readLog
             /\ IsOtherEvent(readLog'[Len(readLog')])) =>
              /\ net' = net
              /\ pc' = "WatchForGame.Decode" /\ proc' = "running"]_vars

\* C12 witness: an event of another tag was read and a challenge was
\* answered with an invalid line; only the GET was issued and the Watcher
\* is back at its next read.
C12_Witness ==
    /\ pc = "WatchForGame.Decode" /\ proc = "running"
    /\ \E i \in 1..Len(readLog) : IsOtherEvent(readLog[i])
    /\ prompted # <<>> /\ Decision(answer.line) = "invalid"
    /\ net = <<Get(EventStreamURL)>>


\* C13: in every execution of FindAndStartGame the GET on the event stream
\* is issued before the seek POST, and the current game is read and bound
\* only after the Watcher has signalled completion (its wg.Done has run
\* on its return at a gameStart).
C13_WatchBeforeSeekBindAfterDone ==
    /\ \A i \in 1..Len(net) :
          net[i] = Post(SeekURL) =>
              \E j \in 1..(i - 1) : net[j] = Get(EventStreamURL)
    /\ pc \in {"bind", "returned", "done"} =>
          /\ wg = 0
          /\ readLog # <<>> /\ IsGameStart(readLog[Len(readLog)])
    /\ (pc # "idle" /\ l.currGame # session.currGame) =>
          /\ pc \in {"returned", "done"}
          /\ wg = 0

\* C13 witness: FindAndStartGame has returned after the GET, the seek POST
\* and the rendezvous, with a game bound on its receiver.
C13_Witness ==
    /\ pc = "returned"
    /\ net = <<Get(EventStreamURL), Post(SeekURL)>>
    /\ l.currGame.Board # NilChan
    /\ l.currGame # session.currGame


\* A gameStart event for game g is among the events the Watcher decoded.
GameStartObserved(g) ==
    \E k \in 1..Len(readLog) :
        IsGameStart(readLog[k]) /\ readLog[k].json.game.id = g

\* C14: the board-state stream of a game id g is never opened (the GET of
\* WatchForBoardUpdates for g is never issued) before the Watcher has
\* observed a gameStart event for g.
C14_BoardStreamAfterGameStart ==
    \A i \in 1..Len(net) :
        net[i] = Get(BoardStreamURL(gameId)) => GameStartObserved(gameId)


\* The Board that decoding one (not malformed) stream record yields.
BoardOf(item) ==
    IF item.kind = "null" THEN ZeroBoard ELSE DecodeBoard(item.json)

\* C15: the board channel is a blocking hand-off: nothing is ever held in
\* the channel, the publisher has never decoded record n+1 before record n
\* was received, and what the consumer has received is every record decoded
\* so far, in order, but the one the publisher still holds in its send.
C15_BlockingHandOff ==
    /\ buf = <<>>
    /\ bRead <= Len(received) + 1
    /\ bpc = "WatchForBoardUpdates.Send" =>
          /\ bRead = Len(received) + 1
          /\ boardResp = BoardOf(bScript[bRead])
    /\ (bpc = "WatchForBoardUpdates.Decode" /\ proc = "running") =>
          bRead = Len(received)
    /\ \A i \in 1..Len(received) : received[i] = BoardOf(bScript[i])

\* C15 witness: the consumer is slower than the stream: after a first
\* hand-off the publisher waits in its send while the consumer is busy and
\* a further record is still unread on the stream.
C15_Witness ==
    /\ bpc = "WatchForBoardUpdates.Send"
    /\ consumer = "busy"
    /\ Len(received) >= 1
    /\ bRead < Len(bScript)


\* The GETs of the account endpoint issued so far.
AccountFetches == {i \in 1..Len(net) : net[i] = Get(AccountURL)}

\* C16: the profile is fetched at most once: over any sequence of
\* GetAccount calls on one session at most one GET of the account endpoint
\* is issued, and every call after the first returns the same, cached
\* profile.
C16_ProfileFetchedOnce ==
    (acctRet # <<>> /\ acctRet[1] # ZeroProfile) =>
        /\ Cardinality(AccountFetches) <= 1
        /\ \A i \in 1..Len(acctRet) : acctRet[i] = acctRet[1]


\* C17: the WaitGroup of FindAndStartGame is balanced: the counter is 0
\* before the call, 1 from wg.Add(1) until WatchForGame returns or panics,
\* and 0 from then on (Done has run exactly once); it is never negative and
\* wg.Wait is only ever reached with the counter at 0.
C17_WaitGroupBalanced ==
    /\ wg \in 0..1
    /\ pc = "idle" => wg = 0
    /\ (InWatcher /\ proc # "panicked") => wg = 1
    /\ proc = "panicked" => wg = 0
    /\ WatcherReturned => wg = 0

\* C17 witness: the rendezvous is reached after a Watcher that handled a
\* challenge and returned, with the counter back at 0.
C17_Witness ==
    /\ pc = "wg.Wait"
    /\ wg = 0
    /\ prompted # <<>>

\* The stream ends cleanly after well-formed JSON records, and the publisher
\* was given a channel a consumer can receive from.
CleanEndWithConsumer ==
    /\ remote.getOK /\ remote.close
    /\ \A i \in 1..Len(bScript) : bScript[i].kind # "malformed"
    /\ ch # NilChan

\* C18: after a clean end of a finite board-state stream whose records a
\* consumer keeps receiving, WatchForBoardUpdates ends and has signalled its
\* WaitGroup exactly once, after every record was received; while no
\* consumer is receiving, the publisher stays in its send and does not
\* signal.
C18_PublisherEndsAndSignalsOnce ==
    /\ [](/\ wgB \in 0..1
          /\ (bpc = "done") <=> (wgB = 0)
          /\ bpc = "done" =>
                /\ proc = "running"
                /\ bRead = Len(bScript) /\ Len(received) = Len(bScript))
    /\ [][(bpc = "WatchForBoardUpdates.Send"
             /\ (consumer # "receiving" \/ ch = NilChan)) =>
                (bpc' = bpc /\ wgB' = wgB /\ received' = received)]_vars
    /\ (CleanEndWithConsumer ~> (bpc = "done" /\ wgB = 0))

====
